---- MODULE Spec2Model ----
(***************************************************************************)
(* State-machine model of pythonnet's setup.py: module-level toolchain     *)
(* selection, PythonNET_BuildExt (package restore, xbuild/msbuild Clean    *)
(* and Build, the Mono shim build), PythonNET_BuildScripts and             *)
(* PythonNET_InstallLib.  External processes are steps whose exit code is  *)
(* chosen nondeterministically.  File names are sequences of characters so *)
(* that glob matching is computed, not assumed.                            *)
(***************************************************************************)
EXTENDS Integers, Sequences, FiniteSets, TLC

(* ---------------- bounds of the model ---------------- *)

\* number of ordinary project directories under src/ besides clrmodule and monoclr
NumPlainDirs == 1

\* number of configured scripts besides the companion executable
NumExtraScripts == 1

(* ---------------- file names ---------------- *)

n_clr_so == <<"c","l","r",".","s","o">>
n_clr_pyd == <<"c","l","r",".","p","y","d">>
n_clr_pdb == <<"c","l","r",".","p","d","b">>
n_clr == <<"c","l","r">>
n_runtime_dll == <<"P","y","t","h","o","n",".","R","u","n","t","i","m","e",".","d","l","l">>
n_unrelated_tmp == <<"u","n","r","e","l","a","t","e","d",".","t","m","p">>
n_npython == <<"n","p","y","t","h","o","n">>
n_nPython_exe == <<"n","P","y","t","h","o","n",".","e","x","e">>

\* the two glob patterns of PythonNET_InstallLib.install
pat_clr == <<"c","l","r",".","*">>
pat_runtime == <<"P","y","t","h","o","n",".","R","u","n","t","i","m","e",".","*">>
\* the first pattern without its dot
InstallPatternsLoose == <<<<"c","l","r","*">>, pat_runtime>>

\* line 205
InstallPatterns == <<pat_clr, pat_runtime>>

\* files an earlier run or the user may have left in the build directory
StaleFiles == {n_clr_pdb, n_unrelated_tmp, n_clr}

(* ---------------- module constants ---------------- *)

CONFIG == "Release"
VERBOSITY == "minimal"

Platforms == {"win32", "linux2"}

\* sys.platform -> DEVTOOLS
DevToolsOf(platform) == IF platform = "win32" THEN "MsDev" ELSE "Mono"

(* ---------------- _find_msbuild_path ---------------- *)

keys_to_check == <<"12.0", "4.0", "3.5", "2.0">>

\* what the registry holds under a ToolsVersions key:
\*   "absent"  OpenKey raises WindowsError
\*   "sz"      MSBuildToolsPath is a REG_SZ value
\*   "nonsz"   MSBuildToolsPath has another type
\*   "novalue" the key opens and has no MSBuildToolsPath: QueryValueEx raises WindowsError
RegStates == {"absent", "sz", "nonsz", "novalue"}
Registries == [1..Len(keys_to_check) -> RegStates]

\* a host without any ToolsVersions key
NoRegistry == [i \in 1..Len(keys_to_check) |-> "absent"]

\* the hosts with at most one ToolsVersions key
SingleKeyRegistries ==
    {reg \in Registries : Cardinality({i \in DOMAIN reg : reg[i] # "absent"}) <= 1}

RECURSIVE FirstOpenValid(_, _)
\* the loop goes on to the next key when the tools path of a key is not a string
FirstOpenValid(reg, i) ==
    IF i > Len(keys_to_check) THEN 0
    ELSE IF reg[i] = "sz" THEN i
    ELSE FirstOpenValid(reg, i + 1)

RECURSIVE FirstOpen(_, _)
\* index of the first key that opens, 0 when none does (the for/break loop)
FirstOpen(reg, i) ==
    IF i > Len(keys_to_check) THEN 0
    ELSE IF reg[i] # "absent" THEN i
    ELSE FirstOpen(reg, i + 1)

\* result record: ok, and the path <tools path of key>\msbuild.exe named by its key
_find_msbuild_path(reg) ==
    LET h == FirstOpen(reg, 1) IN
    IF h = 0 THEN [ok |-> FALSE, path |-> "none", raised |-> "RuntimeError"]
    ELSE IF reg[h] = "novalue" THEN [ok |-> FALSE, path |-> "none", raised |-> "WindowsError"]
    ELSE IF reg[h] # "sz" THEN [ok |-> FALSE, path |-> "none", raised |-> "RuntimeError"]
    ELSE [ok |-> TRUE, path |-> keys_to_check[h], raised |-> "none"]

\* the keys OpenKey is called with, in order (lines 36-41)
ProbedKeys(reg) ==
    LET h == FirstOpen(reg, 1) IN
    SubSeq(keys_to_check, 1, IF h = 0 THEN Len(keys_to_check) ELSE h)

(* ---------------- paths and the file system ---------------- *)

\* a path is a directory and a file name; a bare name is relative to the cwd
Rel(name) == [dir |-> "", name |-> name]

\* os.path.join(dir, p) for a relative path p
join(dir, p) == [dir |-> IF p.dir = "" THEN dir ELSE dir \o "/" \o p.dir, name |-> p.name]
basename(p) == Rel(p.name)
dirname(p) == p.dir

Dirs == {"build_lib", "install_dir"}

\* os.path.isdir / os.path.exists on the modelled directories
isdir(fsys, d) == d \in DOMAIN fsys /\ fsys[d].exists
exists(fsys, p) == isdir(fsys, p.dir) /\ p.name \in fsys[p.dir].files

\* the directory is not created
makedirs_skipped(fsys, d) == fsys

\* os.makedirs / mkpath
makedirs(fsys, d) == [fsys EXCEPT ![d].exists = TRUE]

\* the directory after files are written into it
WriteFiles(fsys, d, names) == [fsys EXCEPT ![d].files = @ \cup names]
RemoveFiles(fsys, d, names) == [fsys EXCEPT ![d].files = @ \ names]

\* sysconfig's extension-module suffix of the host
SoExt(platform) == IF platform = "win32" THEN <<".","p","y","d">> ELSE <<".","s","o">>

\* build_ext.get_ext_fullpath(name): build_lib joined with name + suffix
get_ext_fullpath(name, platform) == join("build_lib", Rel(name \o SoExt(platform)))

(* ---------------- glob ---------------- *)

RECURSIVE fnmatch(_, _)
\* fnmatch of a name against a pattern with * and ? wildcards
fnmatch(name, pat) ==
    IF pat = <<>> THEN name = <<>>
    ELSE IF Head(pat) = "*"
         THEN fnmatch(name, Tail(pat)) \/ (name # <<>> /\ fnmatch(Tail(name), pat))
    ELSE IF Head(pat) = "?"
         THEN name # <<>> /\ fnmatch(Tail(name), Tail(pat))
    ELSE name # <<>> /\ Head(name) = Head(pat) /\ fnmatch(Tail(name), Tail(pat))

\* glob(path with a pattern as its name): the matching paths of that directory
glob(fsys, p) ==
    IF ~isdir(fsys, p.dir) THEN {}
    ELSE {join(p.dir, Rel(f)) : f \in
            {g \in fsys[p.dir].files :
                (Head(g) # "." \/ Head(p.name) = ".") /\ fnmatch(g, p.name)}}

(* ---------------- the projects root ---------------- *)

PlainNames == <<"runtime", "console", "embedtests", "testing">>
SrcNames == {"clrmodule", "monoclr"} \cup {PlainNames[i] : i \in 1..NumPlainDirs}

\* a directory under src/: absent, present without or with a packages.config
SrcStates == {"absent", "nomanifest", "manifest"}

\* all orders in which os.listdir may return a set of names
RECURSIVE Perms(_)
Perms(S) ==
    IF S = {} THEN {<<>>}
    ELSE UNION {{<<x>> \o p : p \in Perms(S \ {x})} : x \in S}

(* ---------------- pkg-config ---------------- *)

\* the third query repeats the first
QueriesRepeated == << [flag |-> "--libs", lib |-> "mono-2"],
                      [flag |-> "--cflags", lib |-> "mono-2"],
                      [flag |-> "--libs", lib |-> "mono-2"],
                      [flag |-> "--cflags", lib |-> "glib-2.0"] >>

\* lines 120-123: the pkg-config queries, in order
Queries == << [flag |-> "--libs", lib |-> "mono-2"],
              [flag |-> "--cflags", lib |-> "mono-2"],
              [flag |-> "--libs", lib |-> "glib-2.0"],
              [flag |-> "--cflags", lib |-> "glib-2.0"] >>

\* the queries pkg-config can be asked
AllQueries == [flag : {"--libs", "--cflags"}, lib : {"mono-2", "glib-2.0"}]

\* what a query may print on stdout, as words and white space: one flag, two
\* flags with white space around them, or nothing but the newline
PkgOutputs(q) ==
    LET word == q.flag \o ":" \o q.lib IN
    { <<word, "\n">>,
      <<" ", word, " ", word \o "+", "\n", "\n">>,
      <<"\n">> }

\* the hosts' pkg-config databases
PkgConfigs == {db \in [AllQueries -> UNION {PkgOutputs(q) : q \in AllQueries}] :
                \A q \in AllQueries : db[q] \in PkgOutputs(q)}

\* a host on which every query prints one flag
DefaultPkgConfig == [q \in AllQueries |-> <<q.flag \o ":" \o q.lib, "\n">>]

(* ---------------- state ---------------- *)

VARIABLES
    sys_platform,   \* sys.platform of the host
    DEVTOOLS,       \* line 18
    profile,        \* _xbuild, _defines_sep, _config, _npython_exe (lines 59-69)
    pc,             \* position of the run
    error,          \* the exception that ended the run, type "none" while running
    exc,            \* returncode and output attributes of a CalledProcessError
    todo,           \* distutils commands still to run
    finished,       \* commands whose handler returned normally
    srcDirs,        \* the directories under src/ and their manifests
    pkg_config,     \* what pkg-config prints on stdout for each query on this host
    registry,       \* the MSBuild ToolsVersions keys of this host's registry
    probes,         \* the keys OpenKey has been called with, in order
    fs,             \* build_lib and install_dir
    listing,        \* result of os.listdir("src") being iterated
    idx,            \* position of the loop in listing
    dest_file,      \* line 87
    cmd,            \* the command list of lines 100-108
    calls,          \* external steps made so far, in order, with their exit codes
    outputs,        \* captured output of the pkg-config queries made so far
    shim_file,      \* path the shim module was linked to
    scripts,        \* build_scripts.scripts
    scripts0,       \* scripts as configured by setup()
    copied,         \* copy_file calls of install, as [src, dst]
    ncopies,        \* number of copy_file calls
    warnings        \* warnings emitted

vars == <<sys_platform, DEVTOOLS, profile, pc, error, exc, todo, finished, srcDirs,
          pkg_config, registry, probes, fs,
          listing, idx, dest_file, cmd, calls, outputs, shim_file, scripts,
          scripts0, copied, ncopies, warnings>>

NoError == [type |-> "none", at |-> "none"]

\* the output attribute of a CalledProcessError: None, or the captured stdout
NotCaptured == [captured |-> FALSE, text |-> <<>>]
Captured(text) == [captured |-> TRUE, text |-> text]
NoExc == [returncode |-> 0, output |-> NotCaptured]
NoPath == [dir |-> "", name |-> <<>>]
NoProfile == [_xbuild |-> "unset", toolsPath |-> "none", _defines_sep |-> "unset",
              _config |-> "unset", _npython_exe |-> <<>>]
NoCmd == [tool |-> "unset", toolsPath |-> "none", solution |-> "unset",
          configuration |-> "unset", platform |-> "unset", defines |-> <<>>,
          sep |-> "unset", defineConstants |-> "unset", outdir |-> "unset",
          verbosity |-> "unset"]

CmdLines == { <<"build_ext", "build_scripts", "install_lib">>,
              <<"build_scripts", "install_lib">> }

\* the host and the state of setup.py's globals before line 18 has been evaluated
InitEnv ==
    /\ sys_platform \in Platforms
    /\ profile = NoProfile
    /\ pc = "module"
    /\ error = NoError
    /\ exc = NoExc
    /\ todo = <<>>
    /\ finished = {}
    /\ srcDirs \in [SrcNames -> SrcStates]
    /\ \E bl \in [exists : {TRUE}, files : SUBSET StaleFiles]
                    \cup {[exists |-> FALSE, files |-> {}]} :
         fs = [d \in Dirs |-> IF d = "build_lib" THEN bl
                              ELSE [exists |-> FALSE, files |-> {}]]
    /\ listing = <<>>
    /\ idx = 0
    /\ probes = <<>>
    /\ dest_file = NoPath
    /\ cmd = NoCmd
    /\ calls = <<>>
    /\ outputs = <<>>
    /\ shim_file = NoPath
    /\ scripts = <<>>
    /\ scripts0 = <<>>
    /\ copied = {}
    /\ ncopies = 0
    /\ warnings = <<>>

\* the state after lines 17-20
\* the registry of a host: only Windows has one
HostRegistries(platform, regs) == IF platform = "win32" THEN regs ELSE {NoRegistry}

Init ==
    /\ InitEnv
    /\ DEVTOOLS = DevToolsOf(sys_platform)
    /\ pkg_config = DefaultPkgConfig
    /\ registry \in HostRegistries(sys_platform, SingleKeyRegistries)

\* a value of DEVTOOLS that is neither MsDev nor Mono
UnsupportedDevTools == {"VS2013"}

\* the state after lines 17-20 when line 18 may have been edited to name
\* another toolchain
InitOverride ==
    /\ InitEnv
    /\ DEVTOOLS \in {DevToolsOf(sys_platform)} \cup UnsupportedDevTools
    /\ pkg_config = DefaultPkgConfig
    /\ registry \in HostRegistries(sys_platform, SingleKeyRegistries)

\* a Mono host with any pkg-config database, one project to restore and no
\* build directory yet
InitFlags ==
    /\ InitEnv
    /\ sys_platform = "linux2"
    /\ DEVTOOLS = DevToolsOf(sys_platform)
    /\ srcDirs = [d \in SrcNames |-> IF d = "monoclr" THEN "manifest" ELSE "absent"]
    /\ ~fs["build_lib"].exists
    /\ pkg_config \in PkgConfigs
    /\ registry = NoRegistry

\* a host with any registry, one project to restore and no build directory yet
InitRegistry ==
    /\ InitEnv
    /\ DEVTOOLS = DevToolsOf(sys_platform)
    /\ srcDirs = [d \in SrcNames |-> IF d = "runtime" THEN "manifest" ELSE "absent"]
    /\ ~fs["build_lib"].exists
    /\ pkg_config = DefaultPkgConfig
    /\ registry \in HostRegistries(sys_platform, Registries)

\* the exception is caught and the commands go on
RaiseSwallowed(type, at) ==
    /\ pc' = "commands"
    /\ error' = [type |-> type, at |-> at]

\* an exception propagates out of setup(): the run ends
Raise(type, at) ==
    /\ pc' = "failed"
    /\ error' = [type |-> type, at |-> at]

(* ---------------- module level: toolchain selection ---------------- *)

MsDevProfile(path) ==
    [_xbuild |-> "msbuild.exe", toolsPath |-> path, _defines_sep |-> ";",
     _config |-> CONFIG \o "Win", _npython_exe |-> n_nPython_exe]

MonoProfile ==
    [_xbuild |-> "xbuild", toolsPath |-> "none", _defines_sep |-> ",",
     _config |-> CONFIG \o "Mono", _npython_exe |-> n_npython]

\* line 65 written as a plain else
SelectsMonoElse(devtools) == TRUE

\* line 65: elif DEVTOOLS == "Mono"
SelectsMono(devtools) == devtools = "Mono"

\* lines 59-72
ToolchainSelection ==
    /\ pc = "module"
    /\ IF DEVTOOLS = "MsDev"
       THEN LET r == _find_msbuild_path(registry) IN
            /\ probes' = ProbedKeys(registry)
            /\ IF r.ok
               THEN /\ profile' = MsDevProfile(r.path)
                    /\ pc' = "main"
                    /\ error' = error
               ELSE /\ Raise(r.raised, "_find_msbuild_path")
                    /\ profile' = profile
       ELSE IF SelectsMono(DEVTOOLS)
       THEN /\ profile' = MonoProfile
            /\ pc' = "main"
            /\ error' = error
            /\ probes' = probes
       ELSE /\ Raise("NotImplementedError", "module")
            /\ profile' = profile
            /\ probes' = probes
    /\ UNCHANGED <<pkg_config, registry, exc, sys_platform, DEVTOOLS, todo, finished, srcDirs, fs, listing, idx,
                   dest_file, cmd, calls, outputs, shim_file, scripts, scripts0, copied,
                   ncopies, warnings>>

(* ---------------- setup() ---------------- *)

ExtraScriptNames == {n_clr_pdb}

RECURSIVE SeqsUpTo(_, _)
\* the sequences over S of length at most n
SeqsUpTo(S, n) ==
    IF n = 0 THEN {<<>>}
    ELSE LET shorter == SeqsUpTo(S, n - 1) IN
         shorter \cup {Append(q, x) : q \in shorter, x \in S}

\* lines 244-264: the distribution's scripts and the commands of the command line
Setup ==
    /\ pc = "main"
    /\ \E line \in CmdLines, extra \in SeqsUpTo(ExtraScriptNames, NumExtraScripts) :
         /\ todo' = line
         /\ scripts0' = <<Rel(profile._npython_exe)>> \o [i \in 1..Len(extra) |-> Rel(extra[i])]
         /\ scripts' = scripts0'
    /\ pc' = "commands"
    /\ UNCHANGED <<pkg_config, registry, probes, exc, sys_platform, DEVTOOLS, profile, error, finished, srcDirs, fs, listing,
                   idx, dest_file, cmd, calls, outputs, shim_file, copied, ncopies, warnings>>

\* the handler of a command returns: distutils goes on to the next command
Return(command) ==
    /\ pc' = "commands"
    /\ todo' = Tail(todo)
    /\ finished' = finished \cup {command}

(* ---------------- PythonNET_BuildExt ---------------- *)

ExitCodes == {0, 1}

\* the exit code is not inspected, as with subprocess.call
check_call_never_raises(rc) == FALSE

\* subprocess.check_call: a non-zero exit code raises CalledProcessError
check_call_raises(rc) == rc # 0

\* subprocess.check_call raises CalledProcessError(retcode, cmd): the child writes
\* to the inherited stdout and stderr, nothing is captured
CheckCallError(rc) == [returncode |-> rc, output |-> NotCaptured]

\* the extension modules of setup(): ext_modules=[Extension("clr", sources=[])]
ext_name == n_clr

\* lines 77-85 and 170-178: build_extension enters _install_packages, which lists src/
build_extension ==
    /\ pc = "commands"
    /\ todo # <<>>
    /\ Head(todo) = "build_ext"
    /\ ext_name = n_clr
    /\ listing' \in Perms({d \in SrcNames : srcDirs[d] # "absent"})
    /\ idx' = 1
    /\ pc' = "restore"
    /\ UNCHANGED <<pkg_config, registry, probes, exc, sys_platform, DEVTOOLS, profile, error, todo, finished, srcDirs, fs,
                   dest_file, cmd, calls, outputs, shim_file, scripts, scripts0, copied,
                   ncopies, warnings>>

\* the Mono form of the command is used on every toolchain
nuget_always_mono(devtools) == "mono tools/nuget/nuget.exe"

\* lines 172-176
nuget(devtools) ==
    IF devtools = "Mono" THEN "mono tools/nuget/nuget.exe" ELSE "tools/nuget/nuget.exe"

\* the two tests name each other's directory
SkippedForToolchainSwapped(devtools, dir) ==
    \/ devtools = "Mono" /\ dir = "monoclr"
    \/ devtools # "Mono" /\ dir = "clrmodule"

\* lines 179-182: the directory is reserved for the other toolchain
SkippedForToolchain(devtools, dir) ==
    \/ devtools = "Mono" /\ dir = "clrmodule"
    \/ devtools # "Mono" /\ dir = "monoclr"

\* lines 184-186: os.path.exists(src/<dir>/packages.config)
HasManifest(src, dir) == src[dir] = "manifest"

\* the loop stops one entry short
LoopDoneEarly(i, lst) == i >= Len(lst)

\* line 178: the for loop over the listing is exhausted
LoopDone(i, lst) == i > Len(lst)

\* lines 178-190: one iteration of the loop over os.listdir("src")
_install_packages ==
    /\ pc = "restore"
    /\ ~LoopDone(idx, listing)
    /\ LET dir == listing[idx] IN
       IF SkippedForToolchain(DEVTOOLS, dir) \/ ~HasManifest(srcDirs, dir)
       THEN /\ idx' = idx + 1
            /\ UNCHANGED <<pc, error, exc, calls>>
       ELSE \E rc \in ExitCodes :
              /\ exc' = IF check_call_raises(rc) THEN CheckCallError(rc) ELSE exc
              /\ calls' = Append(calls, [kind |-> "restore", tool |-> nuget(DEVTOOLS),
                                         arg |-> dir, shell |-> (DEVTOOLS = "Mono"),
                                         variant |-> DEVTOOLS, rc |-> rc])
              /\ IF check_call_raises(rc)
                 THEN Raise("CalledProcessError", "restore") /\ idx' = idx
                 ELSE idx' = idx + 1 /\ UNCHANGED <<pc, error>>
    /\ UNCHANGED <<pkg_config, registry, probes, sys_platform, DEVTOOLS, profile, todo, finished, srcDirs, fs, listing,
                   dest_file, cmd, outputs, shim_file, scripts, scripts0, copied, ncopies,
                   warnings>>

\* sys.version_info[:2] and sys.maxunicode of the host interpreter
PythonDefine(platform) == "PYTHON27"
UnicodeDefine(platform) == IF platform = "win32" THEN "UCS2" ELSE "UCS4"

\* the unicode define is put before the version define
DefinesForSwapped(config, platform) ==
    <<UnicodeDefine(platform), PythonDefine(platform)>>
        \o (IF config = "Debug" THEN <<"DEBUG", "TRACE">> ELSE <<>>)

\* lines 92-98, for a value of CONFIG
DefinesFor(config, platform) ==
    <<PythonDefine(platform), UnicodeDefine(platform)>>
        \o (IF config = "Debug" THEN <<"DEBUG", "TRACE">> ELSE <<>>)

\* lines 92-98
Defines(platform) == DefinesFor(CONFIG, platform)

RECURSIVE JoinStr(_, _)
\* sep.join(strings)
JoinStr(strings, sep) ==
    IF strings = <<>> THEN ""
    ELSE IF Len(strings) = 1 THEN strings[1]
    ELSE strings[1] \o sep \o JoinStr(Tail(strings), sep)

\* architecture()[0] of the host
PLATFORM == "x64"

\* lines 100-108
BuildCmd(prof, platform, dest_dir) ==
    [tool |-> prof._xbuild, toolsPath |-> prof.toolsPath, solution |-> "pythonnet.sln",
     configuration |-> prof._config, platform |-> PLATFORM,
     defines |-> Defines(platform), sep |-> prof._defines_sep,
     defineConstants |-> JoinStr(Defines(platform), prof._defines_sep),
     outdir |-> dest_dir, verbosity |-> VERBOSITY]

\* lines 87-110: _install_packages has returned; the output directory and the command
build_extension_prepare ==
    /\ pc = "restore"
    /\ LoopDone(idx, listing)
    /\ dest_file' = get_ext_fullpath(ext_name, sys_platform)
    /\ LET dest_dir == dirname(dest_file') IN
         /\ fs' = IF ~isdir(fs, dest_dir) THEN makedirs(fs, dest_dir) ELSE fs
         /\ cmd' = BuildCmd(profile, sys_platform, dest_dir)
    /\ listing' = <<>>
    /\ idx' = 0
    /\ pc' = "clean"
    /\ UNCHANGED <<pkg_config, registry, probes, exc, sys_platform, DEVTOOLS, profile, error, todo, finished, srcDirs,
                   calls, outputs, shim_file, scripts, scripts0, copied, ncopies,
                   warnings>>

\* what the solution's projects write into PythonBuildDir
ToolOutputs(devtools) ==
    IF devtools = "Mono" THEN {n_runtime_dll}
    ELSE {n_clr_pyd, n_runtime_dll, n_nPython_exe}

BuildCall(target, rc) ==
    [kind |-> "xbuild", tool |-> cmd.tool, arg |-> target, shell |-> (DEVTOOLS = "Mono"),
     variant |-> DEVTOOLS, rc |-> rc, cmd |-> cmd]


\* the shim is built whatever the toolchain
RunsShimAlways(devtools) == TRUE

\* line 115: the Mono shim is built after the solution
RunsShim(devtools) == devtools = "Mono"

\* line 112: check_call(cmd + /t:Clean)
Clean ==
    /\ pc = "clean"
    /\ \E rc \in ExitCodes :
         /\ exc' = IF check_call_raises(rc) THEN CheckCallError(rc) ELSE exc
         /\ calls' = Append(calls, BuildCall("Clean", rc))
         /\ IF check_call_raises(rc)
            THEN Raise("CalledProcessError", "Clean")
            ELSE pc' = "build" /\ error' = error
         /\ IF rc = 0
            THEN \E gone \in {{}, ToolOutputs(DEVTOOLS)} :
                    fs' = RemoveFiles(fs, cmd.outdir, gone)
            ELSE fs' = fs
    /\ UNCHANGED <<pkg_config, registry, probes, sys_platform, DEVTOOLS, profile, todo, finished, srcDirs, listing, idx,
                   dest_file, cmd, outputs, shim_file, scripts, scripts0, copied, ncopies,
                   warnings>>

\* lines 113-116: check_call(cmd + /t:Build), then the Mono shim when DEVTOOLS is Mono
Build ==
    /\ pc = "build"
    /\ \E rc \in ExitCodes :
         /\ exc' = IF check_call_raises(rc) THEN CheckCallError(rc) ELSE exc
         /\ calls' = Append(calls, BuildCall("Build", rc))
         /\ IF rc = 0
            THEN \E out \in {{}, ToolOutputs(DEVTOOLS)} :
                    fs' = WriteFiles(fs, cmd.outdir, out)
            ELSE fs' = fs
         /\ IF check_call_raises(rc)
            THEN /\ Raise("CalledProcessError", "Build")
                 /\ UNCHANGED <<todo, finished>>
            ELSE /\ error' = error
                 /\ IF RunsShim(DEVTOOLS)
                    THEN pc' = "pkgconfig" /\ UNCHANGED <<todo, finished>>
                    ELSE Return("build_ext")
    /\ UNCHANGED <<pkg_config, registry, probes, sys_platform, DEVTOOLS, profile, srcDirs, listing, idx, dest_file, cmd,
                   outputs, shim_file, scripts, scripts0, copied, ncopies, warnings>>

(* ---------------- _build_monoclr ---------------- *)

\* the return code is not tested
_check_output_never_raises(retcode) == FALSE

\* the exception is built without the output, as check_call builds it
CheckOutputErrorBare(retcode, output) == [returncode |-> retcode, output |-> NotCaptured]

\* line 240: CalledProcessError(retcode, cmd, output=output)
CheckOutputError(retcode, output) == [returncode |-> retcode, output |-> Captured(output)]

\* line 236: _check_output raises on a non-zero return code
_check_output_raises(retcode) == retcode # 0

\* lines 120-123: one query
_build_monoclr_query ==
    /\ pc = "pkgconfig"
    /\ Len(outputs) < Len(Queries)
    /\ LET q == Queries[Len(outputs) + 1] IN
       \E rc \in ExitCodes, out \in {pkg_config[q]} :
         /\ exc' = IF _check_output_raises(rc) THEN CheckOutputError(rc, out) ELSE exc
         /\ calls' = Append(calls, [kind |-> "pkg-config", tool |-> "pkg-config",
                                    arg |-> q, shell |-> TRUE, variant |-> DEVTOOLS,
                                    rc |-> rc])
         /\ IF _check_output_raises(rc)
            THEN Raise("CalledProcessError", "pkg-config") /\ outputs' = outputs
            ELSE /\ outputs' = Append(outputs, out)
                 /\ pc' = IF Len(outputs') = Len(Queries) THEN "shim_module" ELSE pc
                 /\ error' = error
    /\ UNCHANGED <<pkg_config, registry, probes, sys_platform, DEVTOOLS, profile, todo, finished, srcDirs, fs, listing,
                   idx, dest_file, cmd, shim_file, scripts, scripts0, copied, ncopies,
                   warnings>>

IsSpace(c) == c \in {" ", "\n", "\t"}

RECURSIVE lstrip(_)
lstrip(str) == IF str # <<>> /\ IsSpace(Head(str)) THEN lstrip(Tail(str)) ELSE str

RECURSIVE rstrip(_)
rstrip(str) ==
    IF str # <<>> /\ IsSpace(str[Len(str)]) THEN rstrip(SubSeq(str, 1, Len(str) - 1))
    ELSE str

\* str.strip()
strip(str) == rstrip(lstrip(str))

RECURSIVE split(_, _)
\* str.split(sep): the pieces between the separators, empty pieces included
split(str, sep) ==
    IF \A i \in 1..Len(str) : str[i] # sep THEN <<str>>
    ELSE LET i == CHOOSE k \in 1..Len(str) :
                    str[k] = sep /\ \A m \in 1..(k - 1) : str[m] # sep
         IN <<SubSeq(str, 1, i - 1)>> \o split(SubSeq(str, i + 1, Len(str)), sep)

\* the second library's flags are put first
libs_of_swapped(outs) == strip(outs[3]) \o <<" ">> \o strip(outs[1])

\* lines 124-125
cflags_of(outs) == strip(outs[2]) \o <<" ">> \o strip(outs[4])
libs_of(outs) == strip(outs[1]) \o <<" ">> \o strip(outs[3])

\* the shim module named after its source directory
clr_ext_name_monoclr == <<"m","o","n","o","c","l","r">>

\* line 128: the name of the Extension the shim module is built as
clr_ext_name == n_clr

\* outcomes of a distutils compile or link step
CompileOutcomes == {"ok", "CompileError"}
LinkOutcomes == {"ok", "LinkError"}

\* lines 124-136: build the clr python module with build_ext.build_extension
_build_monoclr_module ==
    /\ pc = "shim_module"
    /\ \E res \in CompileOutcomes \cup LinkOutcomes :
         /\ calls' = Append(calls, [kind |-> "shim_module", tool |-> "cc",
                                    arg |-> clr_ext_name, shell |-> FALSE,
                                    variant |-> DEVTOOLS, rc |-> IF res = "ok" THEN 0 ELSE 1,
                                    extra_compile_args |-> split(cflags_of(outputs), " "),
                                    extra_link_args |-> split(libs_of(outputs), " ")])
         /\ IF res # "ok"
            THEN Raise(res, "shim_module") /\ UNCHANGED <<fs, shim_file>>
            ELSE /\ shim_file' = get_ext_fullpath(clr_ext_name, sys_platform)
                 /\ fs' = WriteFiles(fs, dirname(shim_file'), {shim_file'.name})
                 /\ pc' = "shim_compile"
                 /\ error' = error
    /\ UNCHANGED <<pkg_config, registry, probes, exc, sys_platform, DEVTOOLS, profile, todo, finished, srcDirs, listing, idx,
                   dest_file, cmd, outputs, scripts, scripts0, copied, ncopies, warnings>>

\* lines 139-154: compile the sources of the clr python executable
_build_monoclr_compile ==
    /\ pc = "shim_compile"
    /\ \E res \in CompileOutcomes :
         /\ calls' = Append(calls, [kind |-> "shim_compile", tool |-> "cc",
                                    arg |-> profile._npython_exe, shell |-> FALSE,
                                    variant |-> DEVTOOLS, rc |-> IF res = "ok" THEN 0 ELSE 1,
                                    extra_postargs |-> split(cflags_of(outputs), " ")])
         /\ IF res # "ok"
            THEN Raise(res, "shim_compile")
            ELSE pc' = "shim_link" /\ error' = error
    /\ UNCHANGED <<pkg_config, registry, probes, exc, sys_platform, DEVTOOLS, profile, todo, finished, srcDirs, fs, listing,
                   idx, dest_file, cmd, outputs, shim_file, scripts, scripts0, copied,
                   ncopies, warnings>>

\* get_config_vars("BLDLIBRARY")[0]
py_libs == <<"-lpython2.7">>

\* lines 156-167: link the clr python executable into the extension's directory
_build_monoclr_link ==
    /\ pc = "shim_link"
    /\ \E res \in LinkOutcomes :
         LET output_dir == dirname(get_ext_fullpath(ext_name, sys_platform)) IN
         /\ calls' = Append(calls, [kind |-> "shim_link", tool |-> "cc",
                                    arg |-> profile._npython_exe, shell |-> FALSE,
                                    variant |-> DEVTOOLS, rc |-> IF res = "ok" THEN 0 ELSE 1,
                                    extra_postargs |->
                                        split(libs_of(outputs) \o <<" ">> \o py_libs, " ")])
         /\ IF res # "ok"
            THEN Raise(res, "shim_link") /\ UNCHANGED <<fs, todo, finished>>
            ELSE /\ fs' = WriteFiles(fs, output_dir, {profile._npython_exe})
                 /\ Return("build_ext")
                 /\ error' = error
    /\ UNCHANGED <<pkg_config, registry, probes, exc, sys_platform, DEVTOOLS, profile, srcDirs, listing, idx, dest_file, cmd,
                   outputs, shim_file, scripts, scripts0, copied, ncopies, warnings>>

(* ---------------- PythonNET_BuildScripts ---------------- *)

\* the existence test is left out
RelocateAlways(fsys, output_dir, script) == join(output_dir, script)

\* lines 222-224: the path a script is replaced by
Relocate(fsys, output_dir, script) ==
    IF exists(fsys, join(output_dir, script)) THEN join(output_dir, script) ELSE script

\* lines 213-225
finalize_options ==
    /\ pc = "commands"
    /\ todo # <<>>
    /\ Head(todo) = "build_scripts"
    /\ IF scripts # <<>>
       THEN LET output_dir == dirname(get_ext_fullpath(n_clr, sys_platform)) IN
            scripts' = [i \in 1..Len(scripts) |-> Relocate(fs, output_dir, scripts[i])]
       ELSE scripts' = scripts
    /\ Return("build_scripts")
    /\ UNCHANGED <<pkg_config, registry, probes, exc, sys_platform, DEVTOOLS, profile, error, srcDirs, fs, listing, idx,
                   dest_file, cmd, calls, outputs, shim_file, scripts0, copied, ncopies,
                   warnings>>

(* ---------------- PythonNET_InstallLib ---------------- *)

\* install_lib: build_dir is the build command's build_lib
build_dir == "build_lib"
install_dir == "install_dir"

\* the test of line 196 is left out
MissingBuildDirUnchecked(fsys) == FALSE

\* line 196: not os.path.isdir(self.build_dir)
MissingBuildDir(fsys) == ~isdir(fsys, build_dir)

\* lines 205-208: the copy_file calls made for one pattern
CopiesFor(fsys, pattern) ==
    {[src |-> srcfile, dst |-> join(install_dir, basename(srcfile))] :
        srcfile \in glob(fsys, join(build_dir, Rel(pattern)))}

RECURSIVE SumCopies(_, _)
SumCopies(fsys, k) ==
    IF k = 0 THEN 0
    ELSE Cardinality(CopiesFor(fsys, InstallPatterns[k])) + SumCopies(fsys, k - 1)

\* lines 195-208
install ==
    /\ pc = "commands"
    /\ todo # <<>>
    /\ Head(todo) = "install_lib"
    /\ IF MissingBuildDir(fs)
       THEN /\ warnings' = Append(warnings, "does not exist -- no Python modules to install")
            /\ UNCHANGED <<fs, copied, ncopies>>
       ELSE LET made == IF ~isdir(fs, install_dir) THEN makedirs(fs, install_dir) ELSE fs
                new == UNION {CopiesFor(made, InstallPatterns[k]) :
                                k \in 1..Len(InstallPatterns)}
            IN /\ fs' = WriteFiles(made, install_dir, {c.dst.name : c \in new})
               /\ copied' = copied \cup new
               /\ ncopies' = ncopies + SumCopies(made, Len(InstallPatterns))
               /\ warnings' = warnings
    /\ Return("install_lib")
    /\ UNCHANGED <<pkg_config, registry, probes, exc, sys_platform, DEVTOOLS, profile, error, srcDirs, listing, idx,
                   dest_file, cmd, calls, outputs, shim_file, scripts, scripts0>>

(* ---------------- the run ---------------- *)

Next ==
    \/ ToolchainSelection
    \/ Setup
    \/ build_extension
    \/ _install_packages
    \/ build_extension_prepare
    \/ Clean
    \/ Build
    \/ _build_monoclr_query
    \/ _build_monoclr_module
    \/ _build_monoclr_compile
    \/ _build_monoclr_link
    \/ finalize_options
    \/ install

Spec == Init /\ [][Next]_vars

\* the run on hosts with any registry
SpecRegistry == InitRegistry /\ [][Next]_vars

\* the run on Mono hosts with any pkg-config database
SpecFlags == InitFlags /\ [][Next]_vars

\* the run when DEVTOOLS may name an unsupported toolchain
SpecOverride == InitOverride /\ [][Next]_vars

(* ---------------- reading the log of external steps ---------------- *)

CallIdx == 1..Len(calls)
IsRestore(c) == c.kind = "restore"
IsBuildTool(c) == c.kind = "xbuild"
IsClean(c) == c.kind = "xbuild" /\ c.arg = "Clean"
IsBuild(c) == c.kind = "xbuild" /\ c.arg = "Build"
ShimKinds == {"pkg-config", "shim_module", "shim_compile", "shim_link"}
IsShim(c) == c.kind \in ShimKinds

\* the directory reserved for the toolchain that is not active
ReservedForInactive(devtools) == IF devtools = "Mono" THEN "clrmodule" ELSE "monoclr"

\* the subdirectories of src/ that are to be restored under a toolchain
EligibleDirs(devtools) ==
    {d \in SrcNames : srcDirs[d] = "manifest" /\ d # ReservedForInactive(devtools)}

RestoredDirs == {calls[i].arg : i \in {j \in CallIdx : IsRestore(calls[j])}}

(* ---------------- C1 ---------------- *)

\* C1: when the build tool's Clean invocation exits non-zero, no Build invocation
\* is made in the run and the run has ended with the error raised for Clean.
C1_CleanFailureStopsBuild ==
    \A i \in CallIdx :
        (IsClean(calls[i]) /\ calls[i].rc # 0)
            => /\ \A j \in CallIdx : ~IsBuild(calls[j])
               /\ pc = "failed"
               /\ error = [type |-> "CalledProcessError", at |-> "Clean"]

C1_Witness ==
    \E i \in CallIdx : IsClean(calls[i]) /\ calls[i].rc # 0

(* ---------------- C2 ---------------- *)

\* C2: every package restore invocation precedes every build tool invocation, and
\* the build tool is invoked only after the restore phase has finished with no
\* failed restore: every eligible directory was restored with exit code 0.
C2_RestorePrecedesBuildTool ==
    /\ \A i, j \in CallIdx :
          (IsBuildTool(calls[i]) /\ IsRestore(calls[j])) => j < i
    /\ (\E i \in CallIdx : IsBuildTool(calls[i]))
          => /\ \A j \in CallIdx : IsRestore(calls[j]) => calls[j].rc = 0
             /\ pc # "restore"
             /\ EligibleDirs(DEVTOOLS) \subseteq RestoredDirs

C2_Witness ==
    /\ Len(calls) >= 3
    /\ IsRestore(calls[1]) /\ IsRestore(calls[2])
    /\ IsClean(calls[3])

(* ---------------- C3 ---------------- *)

\* C3: a shim step (pkg-config query, shim module build, executable compile or
\* link) is attempted only when the toolchain is Mono and a Clean and then a Build
\* invocation of the run have exited with 0 before it; under MsDev there is none.
C3_ShimOnlyAfterBuildOnMono ==
    /\ \A k \in CallIdx :
          IsShim(calls[k])
            => /\ DEVTOOLS = "Mono"
               /\ \E i, j \in CallIdx :
                     /\ i < j /\ j < k
                     /\ IsClean(calls[i]) /\ calls[i].rc = 0
                     /\ IsBuild(calls[j]) /\ calls[j].rc = 0
    /\ pc \in {"pkgconfig", "shim_module", "shim_compile", "shim_link"}
          => /\ DEVTOOLS = "Mono"
             /\ \E j \in CallIdx : IsBuild(calls[j]) /\ calls[j].rc = 0
    /\ DEVTOOLS = "MsDev" => \A k \in CallIdx : ~IsShim(calls[k])

C3_Witness ==
    /\ \E k \in CallIdx : calls[k].kind = "shim_link"
    /\ \E k \in CallIdx : calls[k].kind = "pkg-config"

\* under MsDev the solution was built and the extension command returned
C3_WitnessPrimary ==
    /\ DEVTOOLS = "MsDev"
    /\ "build_ext" \in finished

(* ---------------- C4 ---------------- *)

\* the restore phase is over and none of its invocations failed
RestorePhaseSucceeded == dest_file # NoPath

\* C4: when no restore fails, the restore invocations are exactly one for each
\* subdirectory of src/ that has a package manifest and is not the directory
\* reserved for the inactive toolchain (clrmodule under Mono, monoclr under MsDev).
C4_RestoreExactlyEligible ==
    RestorePhaseSucceeded
        => /\ RestoredDirs = EligibleDirs(DEVTOOLS)
           /\ Cardinality({j \in CallIdx : IsRestore(calls[j])})
                = Cardinality(EligibleDirs(DEVTOOLS))

\* the case of two subprojects, one reserved for each toolchain, both with a
\* manifest, under MsDev: one restore, of clrmodule
C4_Witness ==
    /\ RestorePhaseSucceeded
    /\ DEVTOOLS = "MsDev"
    /\ srcDirs["clrmodule"] = "manifest"
    /\ srcDirs["monoclr"] = "manifest"
    /\ \A d \in SrcNames \ {"clrmodule", "monoclr"} : srcDirs[d] = "absent"
    /\ RestoredDirs = {"clrmodule"}
    /\ Cardinality({j \in CallIdx : IsRestore(calls[j])}) = 1

(* ---------------- C5 ---------------- *)

\* C5: a restore invocation that exits non-zero is the last external step of the
\* run: no further restore, no Clean, no Build and no shim step follows, and the
\* run has ended with the error.
C5_RestoreFailureAborts ==
    \A i \in CallIdx :
        (IsRestore(calls[i]) /\ calls[i].rc # 0)
            => /\ i = Len(calls)
               /\ pc = "failed"
               /\ error = [type |-> "CalledProcessError", at |-> "restore"]

\* a restore failed while another eligible directory was still to be restored
C5_Witness ==
    /\ \E i \in CallIdx : IsRestore(calls[i]) /\ calls[i].rc # 0
    /\ EligibleDirs(DEVTOOLS) \ RestoredDirs # {}

(* ---------------- C6 ---------------- *)

HasPrefix(name, pre) == Len(name) >= Len(pre) /\ SubSeq(name, 1, Len(pre)) = pre

\* a file name of the form clr.<anything> or Python.Runtime.<anything>
Installable(name) ==
    \/ HasPrefix(name, <<"c","l","r",".">>)
    \/ HasPrefix(name, <<"P","y","t","h","o","n",".","R","u","n","t","i","m","e",".">>)

InstallableFiles == {f \in fs["build_lib"].files : Installable(f)}

\* C6: when the build directory exists, install makes exactly one copy_file call
\* for each file of it named clr.* or Python.Runtime.*, to the same file name in
\* the install directory, and copies no other file.
C6_InstallCopiesExactlyMatching ==
    ("install_lib" \in finished /\ fs["build_lib"].exists)
        => /\ copied = {[src |-> [dir |-> "build_lib", name |-> f],
                         dst |-> [dir |-> "install_dir", name |-> f]] :
                            f \in InstallableFiles}
           /\ ncopies = Cardinality(InstallableFiles)
           /\ fs["install_dir"].exists
           /\ fs["install_dir"].files = InstallableFiles

\* the build directory holds clr.so, clr.pdb, Python.Runtime.dll and unrelated.tmp
C6_Witness ==
    /\ "install_lib" \in finished
    /\ {n_clr_so, n_clr_pdb, n_runtime_dll, n_unrelated_tmp, n_clr}
            \subseteq fs["build_lib"].files
    /\ fs["install_dir"].files = {n_clr_so, n_clr_pdb, n_runtime_dll}

(* ---------------- C7 ---------------- *)

\* C7: install on a build directory that does not exist returns normally, makes
\* no copy_file call, creates nothing, emits one warning and raises no error.
C7_InstallMissingBuildDir ==
    ("install_lib" \in finished /\ ~fs["build_lib"].exists)
        => /\ copied = {}
           /\ ncopies = 0
           /\ fs["install_dir"].files = {}
           /\ Len(warnings) = 1
           /\ error = NoError
           /\ pc # "failed"

C7_Witness ==
    /\ "install_lib" \in finished
    /\ ~fs["build_lib"].exists
    /\ Len(warnings) = 1

(* ---------------- C8 ---------------- *)

\* C8: under Mono, once restore, Clean, Build and the shim steps have succeeded,
\* the shim module has been written to the path computed for the clr extension at
\* line 87 (the build directory, name clr plus the host's suffix), and install,
\* once it has run, has copied that file to the install directory.
C8_ShimModuleInstalled ==
    (DEVTOOLS = "Mono" /\ "build_ext" \in finished)
        => /\ shim_file = dest_file
           /\ shim_file.dir = "build_lib"
           /\ HasPrefix(shim_file.name, <<"c","l","r",".">>)
           /\ shim_file.name \in fs["build_lib"].files
           /\ "install_lib" \in finished
                => [src |-> shim_file,
                    dst |-> [dir |-> "install_dir", name |-> shim_file.name]] \in copied

C8_Witness ==
    /\ DEVTOOLS = "Mono"
    /\ "build_ext" \in finished
    /\ "install_lib" \in finished
    /\ \E c \in copied : c.src = shim_file

(* ---------------- C9 ---------------- *)

\* the path finalize_options is to give a configured script
ExpectedScript(script) ==
    IF fs["build_lib"].exists /\ script.name \in fs["build_lib"].files
    THEN [dir |-> "build_lib", name |-> script.name]
    ELSE script

C9_Mapping ==
    "build_scripts" \in finished
        => /\ Len(scripts) = Len(scripts0)
           /\ \A i \in 1..Len(scripts0) : scripts[i] = ExpectedScript(scripts0[i])

\* C9: finalize_options replaces each configured script, keeping order and count,
\* by its path in the build directory when a file of that name exists there and
\* leaves it unchanged otherwise; the step changes no file or directory.
C9_ScriptRelocation ==
    /\ []C9_Mapping
    /\ [][("build_scripts" \notin finished /\ "build_scripts" \in finished')
            => fs' = fs]_vars

\* two scripts, the first relocated and the second left as configured
C9_Witness ==
    /\ "build_scripts" \in finished
    /\ Len(scripts) = 2
    /\ scripts[1] = [dir |-> "build_lib", name |-> scripts0[1].name]
    /\ scripts[2] = scripts0[2]
    /\ scripts0[2].dir = ""

\* two scripts, the first left as configured and the second relocated
C9_WitnessSecond ==
    /\ "build_scripts" \in finished
    /\ Len(scripts) = 2
    /\ scripts[1] = scripts0[1]
    /\ scripts[2] = [dir |-> "build_lib", name |-> scripts0[2].name]

(* ---------------- C10 ---------------- *)

\* what each use of the toolchain variant has to look like under a variant
VariantForm(v) ==
    IF v = "MsDev"
    THEN [tool |-> "msbuild.exe", sep |-> ";", config |-> "ReleaseWin",
          exe |-> n_nPython_exe, nuget |-> "tools/nuget/nuget.exe", shell |-> FALSE,
          shim |-> FALSE]
    ELSE [tool |-> "xbuild", sep |-> ",", config |-> "ReleaseMono",
          exe |-> n_npython, nuget |-> "mono tools/nuget/nuget.exe", shell |-> TRUE,
          shim |-> TRUE]

CallFollowsVariant(c, v) ==
    /\ c.variant = v
    /\ IsRestore(c) => /\ c.tool = VariantForm(v).nuget
                       /\ c.shell = VariantForm(v).shell
                       /\ c.arg # ReservedForInactive(v)
    /\ IsBuildTool(c) => /\ c.tool = VariantForm(v).tool
                         /\ c.shell = VariantForm(v).shell
                         /\ c.cmd.sep = VariantForm(v).sep
                         /\ c.cmd.configuration = VariantForm(v).config
    /\ IsShim(c) => VariantForm(v).shim
    /\ c.kind \in {"shim_compile", "shim_link"} => c.arg = VariantForm(v).exe

C10_Consistent ==
    LET v == DevToolsOf(sys_platform) IN
    /\ DEVTOOLS = v
    /\ profile # NoProfile
          => /\ profile._xbuild = VariantForm(v).tool
             /\ profile._defines_sep = VariantForm(v).sep
             /\ profile._config = VariantForm(v).config
             /\ profile._npython_exe = VariantForm(v).exe
    /\ \A i \in CallIdx : CallFollowsVariant(calls[i], v)
    /\ scripts0 # <<>> => scripts0[1].name = VariantForm(v).exe
    /\ "build_ext" \in finished
          => (VariantForm(v).shim <=> \E i \in CallIdx : IsShim(calls[i]))

\* C10: the toolchain variant is the one resolved from the platform at startup and
\* never changes; restore eligibility and command form, the build tool, define
\* separator and configuration, the decision to build the shim and the companion
\* executable's name all follow that one variant, and the profile is set once.
C10_VariantFixed ==
    /\ []C10_Consistent
    /\ [][/\ DEVTOOLS' = DEVTOOLS
          /\ profile # NoProfile => profile' = profile]_vars

\* a Mono run that restored, built and linked the companion executable
C10_Witness ==
    /\ DEVTOOLS = "Mono"
    /\ \E i \in CallIdx : IsRestore(calls[i])
    /\ \E i \in CallIdx : calls[i].kind = "shim_link" /\ calls[i].rc = 0
    /\ "build_scripts" \in finished

\* an MsDev run that restored and built
C10_WitnessPrimary ==
    /\ DEVTOOLS = "MsDev"
    /\ \E i \in CallIdx : IsRestore(calls[i])
    /\ "build_ext" \in finished

(* ---------------- C11 ---------------- *)

\* the shim steps in the order they are to be taken
ShimOrder ==
    << [kind |-> "pkg-config", arg |-> [flag |-> "--libs", lib |-> "mono-2"]],
       [kind |-> "pkg-config", arg |-> [flag |-> "--cflags", lib |-> "mono-2"]],
       [kind |-> "pkg-config", arg |-> [flag |-> "--libs", lib |-> "glib-2.0"]],
       [kind |-> "pkg-config", arg |-> [flag |-> "--cflags", lib |-> "glib-2.0"]],
       [kind |-> "shim_module", arg |-> n_clr],
       [kind |-> "shim_compile", arg |-> profile._npython_exe],
       [kind |-> "shim_link", arg |-> profile._npython_exe] >>

\* number of shim steps logged before position k
ShimStepsBefore(k) == Cardinality({j \in CallIdx : j < k /\ IsShim(calls[j])})

\* C11: the shim steps are taken in the order query, query, query, query, module
\* build, executable compile, executable link, and each is fatal: a step that
\* fails is the last step of the run, so no later query or build is attempted.
C11_ShimStepsOrderedAndFatal ==
    \A k \in CallIdx :
        IsShim(calls[k])
            => /\ ShimStepsBefore(k) < Len(ShimOrder)
               /\ calls[k].kind = ShimOrder[ShimStepsBefore(k) + 1].kind
               /\ calls[k].arg = ShimOrder[ShimStepsBefore(k) + 1].arg
               /\ \A j \in CallIdx : j < k /\ IsShim(calls[j]) => calls[j].rc = 0
               /\ calls[k].rc # 0 => (k = Len(calls) /\ pc = "failed")

\* a pkg-config query failed before the last query
C11_Witness ==
    /\ Len(calls) > 0
    /\ calls[Len(calls)].kind = "pkg-config"
    /\ calls[Len(calls)].rc # 0
    /\ ShimStepsBefore(Len(calls)) \in {1, 2}

\* the module build failed after the four queries
C11_WitnessModule ==
    /\ Len(calls) > 0
    /\ calls[Len(calls)].kind = "shim_module"
    /\ calls[Len(calls)].rc # 0
    /\ ShimStepsBefore(Len(calls)) = 4

(* ---------------- C12 ---------------- *)

\* C12: no external command is retried: in a run there is at most one Clean, at
\* most one Build, at most one query for each of the four flag and library
\* pairs, and at most one restore for each directory, whatever their exit codes.
C12_NoRetry ==
    /\ Cardinality({j \in CallIdx : IsClean(calls[j])}) <= 1
    /\ Cardinality({j \in CallIdx : IsBuild(calls[j])}) <= 1
    /\ \A f \in {"--libs", "--cflags"}, l \in {"mono-2", "glib-2.0"} :
          Cardinality({j \in CallIdx : /\ calls[j].kind = "pkg-config"
                                       /\ calls[j].arg = [flag |-> f, lib |-> l]}) <= 1
    /\ \A d \in SrcNames :
          Cardinality({j \in CallIdx : IsRestore(calls[j]) /\ calls[j].arg = d}) <= 1

\* a run that ended on a failed step after restores, Clean, Build and queries
C12_Witness ==
    /\ pc = "failed"
    /\ Cardinality({j \in CallIdx : IsRestore(calls[j])}) >= 2
    /\ Cardinality({j \in CallIdx : IsClean(calls[j])}) = 1
    /\ Cardinality({j \in CallIdx : IsBuild(calls[j])}) = 1
    /\ Cardinality({j \in CallIdx : calls[j].kind = "pkg-config"}) = 4

(* ---------------- C13 ---------------- *)

\* the run ended on the non-zero exit of an external process
EndedOnExitCode == error.type = "CalledProcessError"

\* C13 as stated: every error raised for a non-zero exit of restore, Clean, Build
\* or a pkg-config query carries the exit code and the captured output.
C13_ErrorCarriesCodeAndOutput ==
    EndedOnExitCode
        => /\ exc.returncode # 0
           /\ exc.returncode = calls[Len(calls)].rc
           /\ exc.output.captured

\* C13: every error raised for a non-zero exit of restore, Clean, Build or a
\* pkg-config query carries the exit code of that process; the error of a
\* pkg-config query also carries its captured standard output, while the errors
\* of restore, Clean and Build carry no output, none being captured.
C13_ErrorCarriesCode ==
    EndedOnExitCode
        => /\ Len(calls) > 0
           /\ exc.returncode # 0
           /\ exc.returncode = calls[Len(calls)].rc
           /\ error.at \in {"restore", "Clean", "Build", "pkg-config"}
           /\ error.at = "pkg-config"
                => /\ calls[Len(calls)].kind = "pkg-config"
                   /\ exc.output.captured
                   /\ exc.output.text \in PkgOutputs(calls[Len(calls)].arg)
           /\ error.at \in {"restore", "Clean", "Build"}
                => /\ calls[Len(calls)].kind \in {"restore", "xbuild"}
                   /\ exc.output = NotCaptured

\* a pkg-config query failed and its output is on the error
C13_Witness ==
    /\ EndedOnExitCode
    /\ error.at = "pkg-config"
    /\ exc.output.captured
    /\ exc.output.text # <<>>

\* a Build failed and the error has no output
C13_WitnessBuild ==
    /\ EndedOnExitCode
    /\ error.at = "Build"
    /\ ~exc.output.captured

(* ---------------- C14 ---------------- *)

\* a restore, Clean, Build or shim step of the run has failed
SomeStepFailed == \E k \in CallIdx : calls[k].rc # 0

\* C14: once a restore, Clean, Build or shim step has failed, the run is in its
\* failed state with the error recorded, no further step can be taken, and
\* install has not run and has copied no file.
C14_FailureHaltsBeforeInstall ==
    SomeStepFailed
        => /\ pc = "failed"
           /\ error # NoError
           /\ ~ENABLED Next
           /\ "install_lib" \notin finished
           /\ copied = {}
           /\ ncopies = 0
           /\ fs["install_dir"].files = {}

\* the executable link failed while installable files were in the build
\* directory and install was still to run
C14_Witness ==
    /\ SomeStepFailed
    /\ error.at = "shim_link"
    /\ n_clr_so \in fs["build_lib"].files
    /\ n_runtime_dll \in fs["build_lib"].files
    /\ todo # <<>>
    /\ todo[Len(todo)] = "install_lib"

(* ---------------- C15 ---------------- *)

\* C15: when DEVTOOLS names neither MsDev nor Mono, the toolchain selection
\* raises NotImplementedError and nothing else happens: no profile is set, no
\* external step is made, no command runs and no file or directory is touched.
C15_UnsupportedToolchainFails ==
    DEVTOOLS \notin {"MsDev", "Mono"}
        => /\ pc \in {"module", "failed"}
           /\ pc = "failed" => error = [type |-> "NotImplementedError", at |-> "module"]
           /\ profile = NoProfile
           /\ calls = <<>>
           /\ finished = {}
           /\ todo = <<>>
           /\ copied = {}
           /\ ~fs["install_dir"].exists
           /\ fs["install_dir"].files = {}
           /\ fs["build_lib"].files \subseteq StaleFiles

C15_Witness ==
    /\ DEVTOOLS \notin {"MsDev", "Mono"}
    /\ pc = "failed"
    /\ error.type = "NotImplementedError"

(* ---------------- C17 ---------------- *)

\* the DefineConstants value a toolchain and host are to give for Release
ExpectedDefineConstants(v) == IF v = "MsDev" THEN "PYTHON27;UCS2" ELSE "PYTHON27,UCS4"

\* C17: the Clean and the Build invocation of a run have the same tool, solution,
\* configuration, platform, output directory, verbosity and defines and differ
\* in the target only; the defines are the version define, then the unicode
\* define, then DEBUG and TRACE for the Debug configuration only, joined with
\* ";" under MsDev and "," under Mono.
C17_CleanAndBuildShareParameters ==
    /\ \A i, j \in CallIdx :
          (IsClean(calls[i]) /\ IsBuild(calls[j]))
            => /\ calls[i].cmd = calls[j].cmd
               /\ calls[i].tool = calls[j].tool
               /\ calls[i].shell = calls[j].shell
    /\ \A i \in CallIdx :
          IsBuildTool(calls[i])
            => /\ calls[i].arg \in {"Clean", "Build"}
               /\ calls[i].cmd.solution = "pythonnet.sln"
               /\ calls[i].cmd.configuration
                    = (IF DEVTOOLS = "MsDev" THEN "ReleaseWin" ELSE "ReleaseMono")
               /\ calls[i].cmd.platform = PLATFORM
               /\ calls[i].cmd.outdir = "build_lib"
               /\ calls[i].cmd.verbosity = "minimal"
               /\ calls[i].cmd.sep = (IF DEVTOOLS = "MsDev" THEN ";" ELSE ",")
               /\ calls[i].cmd.defineConstants = ExpectedDefineConstants(DEVTOOLS)
    /\ \A p \in Platforms :
          /\ DefinesFor("Release", p) = <<PythonDefine(p), UnicodeDefine(p)>>
          /\ DefinesFor("Debug", p) = <<PythonDefine(p), UnicodeDefine(p), "DEBUG", "TRACE">>
          /\ JoinStr(DefinesFor("Debug", p), ";")
                = PythonDefine(p) \o ";" \o UnicodeDefine(p) \o ";DEBUG;TRACE"

\* both invocations were made, under MsDev
C17_Witness ==
    /\ DEVTOOLS = "MsDev"
    /\ \E i, j \in CallIdx : i < j /\ IsClean(calls[i]) /\ IsBuild(calls[j])

\* both invocations were made, under Mono
C17_WitnessMono ==
    /\ DEVTOOLS = "Mono"
    /\ \E i, j \in CallIdx : i < j /\ IsClean(calls[i]) /\ IsBuild(calls[j])

(* ---------------- C18 ---------------- *)

C18_DirExistsAtInvocation ==
    /\ pc \in {"clean", "build"} => (cmd.outdir = "build_lib" /\ fs["build_lib"].exists)
    /\ \A i \in CallIdx :
          IsBuildTool(calls[i]) => (calls[i].cmd.outdir = "build_lib" /\ fs["build_lib"].exists)

\* C18: whenever the build tool is about to be invoked or has been invoked, the
\* output directory passed to it exists; build_extension creates a missing
\* output directory only in the step that follows the restore loop, when every
\* eligible directory has been restored with exit code 0.
C18_OutputDirReady ==
    /\ []C18_DirExistsAtInvocation
    /\ [][(~fs["build_lib"].exists /\ fs'["build_lib"].exists)
            => /\ pc = "restore"
               /\ pc' = "clean"
               /\ calls' = calls
               /\ EligibleDirs(DEVTOOLS) \subseteq RestoredDirs
               /\ \A j \in CallIdx : calls[j].rc = 0]_vars

\* the directory was missing, was created with nothing in it, and Clean is next
C18_Witness ==
    /\ pc = "clean"
    /\ fs["build_lib"].exists
    /\ fs["build_lib"].files = {}
    /\ \E j \in CallIdx : IsRestore(calls[j])

(* ---------------- C19 ---------------- *)

\* the text without the white space before its first and after its last word
Trimmed(text) ==
    LET words == {i \in 1..Len(text) : ~IsSpace(text[i])} IN
    IF words = {} THEN <<>>
    ELSE SubSeq(text, CHOOSE i \in words : \A j \in words : i <= j,
                      CHOOSE i \in words : \A j \in words : j <= i)

RECURSIVE Spaced(_)
\* the arguments written one after the other, a space between two neighbours
Spaced(args) ==
    IF Len(args) = 1 THEN args[1]
    ELSE args[1] \o <<" ">> \o Spaced(Tail(args))

\* the four queries, in the order the spec gives them
C19_Queries ==
    << [flag |-> "--libs", lib |-> "mono-2"], [flag |-> "--cflags", lib |-> "mono-2"],
       [flag |-> "--libs", lib |-> "glib-2.0"], [flag |-> "--cflags", lib |-> "glib-2.0"] >>

C19_LinkFlags ==
    Trimmed(pkg_config[C19_Queries[1]]) \o <<" ">> \o Trimmed(pkg_config[C19_Queries[3]])

C19_CompileFlags ==
    Trimmed(pkg_config[C19_Queries[2]]) \o <<" ">> \o Trimmed(pkg_config[C19_Queries[4]])

C19_QueryCalls == {i \in CallIdx : calls[i].kind = "pkg-config"}

\* C19: once flag discovery is over (the module build is invoked), exactly four
\* queries have been issued: link and compile flags of mono-2, then link and
\* compile flags of glib-2.0. The link flags are the trimmed link output of mono-2,
\* a space, the trimmed link output of glib-2.0, and likewise the compile flags.
\* The module is built with exactly these compile and link flags, the executable
\* is compiled with these compile flags and linked with the link flags followed by
\* the interpreter's link library as the last argument.
C19_FlagsInLibraryOrder ==
    \A i \in CallIdx :
        /\ calls[i].kind \in {"shim_module", "shim_compile", "shim_link"} =>
              /\ Cardinality(C19_QueryCalls) = 4
              /\ \E first \in CallIdx :
                    /\ C19_QueryCalls = first..(first + 3)
                    /\ first + 3 < i
                    /\ \A n \in 1..4 : calls[first + n - 1].arg = C19_Queries[n]
        /\ calls[i].kind = "shim_module" =>
              /\ Spaced(calls[i].extra_link_args) = C19_LinkFlags
              /\ Spaced(calls[i].extra_compile_args) = C19_CompileFlags
              /\ \A a \in 1..Len(calls[i].extra_link_args) :
                    \A t \in 1..Len(calls[i].extra_link_args[a]) :
                        calls[i].extra_link_args[a][t] # " "
        /\ calls[i].kind = "shim_compile" =>
              Spaced(calls[i].extra_postargs) = C19_CompileFlags
        /\ calls[i].kind = "shim_link" =>
              /\ Spaced(calls[i].extra_postargs) = C19_LinkFlags \o <<" ">> \o py_libs
              /\ calls[i].extra_postargs[Len(calls[i].extra_postargs)] = py_libs

\* the executable was linked on a host whose mono-2 link output has two flags
\* with white space around them, and whose two libraries print different flags
C19_Witness ==
    /\ pkg_config[C19_Queries[1]] = <<" ", "--libs:mono-2", " ", "--libs:mono-2+", "\n", "\n">>
    /\ pkg_config[C19_Queries[3]] = <<"--libs:glib-2.0", "\n">>
    /\ pkg_config[C19_Queries[2]] = <<"--cflags:mono-2", "\n">>
    /\ \E i \in CallIdx :
          /\ calls[i].kind = "shim_link"
          /\ calls[i].rc = 0
          /\ calls[i].extra_postargs =
                << <<"--libs:mono-2">>, <<"--libs:mono-2+">>, <<"--libs:glib-2.0">>, py_libs >>
    /\ "build_ext" \in finished

(* ---------------- C20 ---------------- *)

\* the version keys in the order the spec gives them
C20_Keys == <<"12.0", "4.0", "3.5", "2.0">>

\* the keys of this host that open
C20_Opening == {i \in 1..4 : registry[i] # "absent"}

\* the highest-priority key of this host that opens
C20_First == CHOOSE i \in C20_Opening : \A j \in C20_Opening : i <= j

C20_Failed(type) ==
    /\ pc = "failed"
    /\ error = [type |-> type, at |-> "_find_msbuild_path"]
    /\ profile = NoProfile

\* C20: once the primary toolchain has been located or has failed to be, the
\* keys probed are 12.0, 4.0, 3.5, 2.0 in this order up to and including the
\* first one that opens and none after it; when no key opens the run has failed
\* with the tool-location error; when the first key that opens holds a tools
\* path that is not a string the run has failed with the tool-location error,
\* whatever the later keys hold; when it holds a string the tool is that key's
\* tools path joined with msbuild.exe.
C20_FirstOpenKeyDecides ==
    (DEVTOOLS = "MsDev" /\ pc # "module") =>
        IF C20_Opening = {}
        THEN /\ probes = C20_Keys
             /\ C20_Failed("RuntimeError")
        ELSE /\ probes = SubSeq(C20_Keys, 1, C20_First)
             /\ registry[C20_First] = "nonsz" => C20_Failed("RuntimeError")
             /\ registry[C20_First] = "sz" =>
                   /\ error.at # "_find_msbuild_path"
                   /\ profile.toolsPath = C20_Keys[C20_First]
                   /\ profile._xbuild = "msbuild.exe"

\* the 12.0 key is missing, the 4.0 key opens with a tools path that is not a
\* string, the 3.5 key is valid: the run has failed after two probes
C20_Witness ==
    /\ registry[1] = "absent"
    /\ registry[2] = "nonsz"
    /\ registry[3] = "sz"
    /\ probes = <<"12.0", "4.0">>
    /\ C20_Failed("RuntimeError")

\* the 12.0 key is missing and the 4.0 key is valid: Clean is run with the 4.0 tools
C20_WitnessSuccess ==
    /\ registry[1] = "absent"
    /\ registry[2] = "sz"
    /\ registry[3] = "sz"
    /\ \E i \in CallIdx : IsClean(calls[i]) /\ calls[i].cmd.toolsPath = "4.0"

\* no key opens: all four keys were probed
C20_WitnessNone ==
    /\ registry = NoRegistry
    /\ DEVTOOLS = "MsDev"
    /\ probes = <<"12.0", "4.0", "3.5", "2.0">>
    /\ C20_Failed("RuntimeError")

====
